---- MODULE Spec2Model ----
(***************************************************************************)
(* PII redaction engine of the document redactor service (src/app.py).     *)
(*                                                                         *)
(* A text is a sequence of characters; a character is a one-character      *)
(* string, except the two non-ASCII characters of the program, which are   *)
(* written ENDASH (U+2013, a label separator) and MASK (U+2588, the glyph  *)
(* blackout() writes).  Regular expressions are sequences of items and     *)
(* are matched with the priorities of Python's backtracking engine.        *)
(***************************************************************************)
EXTENDS Integers, Sequences, FiniteSets, TLC

MASK   == "MASK"
ENDASH == "ENDASH"

\* ------------------------------------------------------------------------
\* Characters and character classes
\* ------------------------------------------------------------------------
ToLower ==
  [A |-> "a", B |-> "b", C |-> "c", D |-> "d", E |-> "e", F |-> "f", G |-> "g",
   H |-> "h", I |-> "i", J |-> "j", K |-> "k", L |-> "l", M |-> "m", N |-> "n",
   O |-> "o", P |-> "p", Q |-> "q", R |-> "r", S |-> "s", T |-> "t", U |-> "u",
   V |-> "v", W |-> "w", X |-> "x", Y |-> "y", Z |-> "z"]

UpperLetters == DOMAIN ToLower
LowerLetters == {ToLower[c] : c \in UpperLetters}
Letters == UpperLetters \cup LowerLetters
Digits == {"0", "1", "2", "3", "4", "5", "6", "7", "8", "9"}
Spaces == {" ", "\t", "\n", "\r", "\f"}
LineTerminators == {"\n", "\r"}

\* a comparison that ignores flags=re.I
LowerNone(c) == c

\* re.I: characters are compared after case folding
Lower(c) == IF c \in UpperLetters THEN ToLower[c] ELSE c

\* \w of a str pattern: alphanumerics and the underscore
IsWord(c) == c \in Letters \/ c \in Digits \/ c = "_"

\* membership of character c in the class of item it
InClass(it, c) ==
  CASE it.cls = "lit"   -> Lower(c) = Lower(it.ch)
    [] it.cls = "d"     -> c \in Digits
    [] it.cls = "s"     -> c \in Spaces
    [] it.cls = "sep"   -> c \in {":", "-", ENDASH}
    [] it.cls = "val"   -> c \notin LineTerminators
    [] it.cls = "psep"  -> c \in {"-", "."} \/ c \in Spaces
    [] it.cls = "ccsep" -> c = "-" \/ c \in Spaces
    [] it.cls = "dsep"  -> c \in {"/", "-", "."}
    [] it.cls = "local" -> c \in Letters \/ c \in Digits \/ c \in {".", "_", "%", "+", "-"}
    [] it.cls = "dom"   -> c \in Letters \/ c \in Digits \/ c \in {".", "-"}
    [] it.cls = "alpha" -> c \in Letters
    [] it.cls = "set"   -> c \in it.ch

\* ------------------------------------------------------------------------
\* Regular expression items
\* ------------------------------------------------------------------------
Inf == -1   \* no upper limit on a repetition

Rep(cls, ch, min, max, greedy) ==
  [kind |-> "rep", cls |-> cls, ch |-> ch, min |-> min, max |-> max, greedy |-> greedy]
One(cls)      == Rep(cls, "", 1, 1, TRUE)
Opt(cls)      == Rep(cls, "", 0, 1, TRUE)
Star(cls)     == Rep(cls, "", 0, Inf, TRUE)
Plus(cls)     == Rep(cls, "", 1, Inf, TRUE)
Lit(ch)       == Rep("lit", ch, 1, 1, TRUE)
OptLit(ch)    == Rep("lit", ch, 0, 1, TRUE)
In(set)       == Rep("set", set, 1, 1, TRUE)
Boundary      == [kind |-> "b"]
GroupStart    == [kind |-> "mark"]
Alt(branches) == [kind |-> "alt", branches |-> branches]

NoMatch == <<>>

\* \b at offset pos of t (pos characters lie to the left)
IsBoundary(t, pos) ==
  LET left  == pos >= 1 /\ pos <= Len(t) /\ IsWord(t[pos])
      right == pos + 1 <= Len(t) /\ IsWord(t[pos + 1])
  IN  left # right

RECURSIVE RunLen(_, _, _, _)
\* number of consecutive characters of t from offset pos in the class of it,
\* at most lim (lim = Inf: no limit)
RunLen(t, it, pos, lim) ==
  IF lim = 0 \/ pos >= Len(t) THEN 0
  ELSE IF InClass(it, t[pos + 1])
       THEN 1 + RunLen(t, it, pos + 1, IF lim = Inf THEN Inf ELSE lim - 1)
       ELSE 0

RECURSIVE MatchSeq(_, _, _, _), TryCount(_, _, _, _, _, _), TryAlt(_, _, _, _, _)
\* Match the items k, k+1, ... at offset pos of t.  The result is NoMatch,
\* or <<g, e>>: e the offset where the match ends and g the offset where the
\* group opened by GroupStart begins (e when there is none).
MatchSeq(t, items, k, pos) ==
  IF k > Len(items) THEN <<pos, pos>>
  ELSE LET it == items[k]
       IN CASE it.kind = "rep" ->
                 LET run == RunLen(t, it, pos, it.max)
                 IN  IF run < it.min THEN NoMatch
                     ELSE TryCount(t, items, k, pos,
                                   IF it.greedy THEN run ELSE it.min, run)
            [] it.kind = "b" ->
                 IF IsBoundary(t, pos) THEN MatchSeq(t, items, k + 1, pos) ELSE NoMatch
            [] it.kind = "mark" ->
                 LET r == MatchSeq(t, items, k + 1, pos)
                 IN  IF r = NoMatch THEN NoMatch ELSE <<pos, r[2]>>
            [] it.kind = "alt" ->
                 TryAlt(t, it.branches, SubSeq(items, k + 1, Len(items)), pos, 1)

\* the repetition items[k] tries its counts in order: a greedy one from the
\* longest run down to min, a lazy one from min up to the longest run
TryCount(t, items, k, pos, n, run) ==
  LET r == MatchSeq(t, items, k + 1, pos + n)
  IN  IF r # NoMatch THEN r
      ELSE IF items[k].greedy
           THEN IF n > items[k].min THEN TryCount(t, items, k, pos, n - 1, run)
                ELSE NoMatch
           ELSE IF n < run THEN TryCount(t, items, k, pos, n + 1, run)
                ELSE NoMatch

\* an alternation tries its branches left to right, each followed by the
\* rest of the expression
TryAlt(t, branches, rest, pos, i) ==
  IF i > Len(branches) THEN NoMatch
  ELSE LET r == MatchSeq(t, branches[i] \o rest, 1, pos)
       IN  IF r # NoMatch THEN r ELSE TryAlt(t, branches, rest, pos, i + 1)

\* ------------------------------------------------------------------------
\* Vocabulary: the label catalog and the structural patterns
\* ------------------------------------------------------------------------
LabelStrings ==
  <<
   <<"g","o","v","e","r","n","m","e","n","t"," ","i","s","s","u","e","d"," ","i","d">>,
   <<"G","o","v","e","r","n","m","e","n","t"," ","I","s","s","u","e","d"," ","I","D">>,
   <<"G","O","V","E","R","N","M","E","N","T"," ","I","S","S","U","E","D"," ","I","D">>,
   <<"g","o","v","t"," ","i","s","s","u","e","d"," ","i","d">>,
   <<"g","o","v"," ","i","s","s","u","e","d"," ","i","d">>,
   <<"g","o","v"," ","i","s","s","u","e","d"," ","i","d","e","n","t","i","f","i","c","a","t","i","o","n">>,
   <<"g","o","v"," ","i","d">>,
   <<"g","o","v","t"," ","i","d">>,
   <<"g","o","v","e","r","n","m","e","n","t"," ","i","d">>,
   <<"g","o","v","e","r","n","m","e","n","t"," ","i","d","e","n","t","i","f","i","c","a","t","i","o","n">>,
   <<"i","d"," ","i","s","s","u","e","d"," ","b","y"," ","g","o","v","e","r","n","m","e","n","t">>,
   <<"g","o","v","e","r","n","m","e","n","t"," ","i","d","e","n","t","i","t","y"," ","c","a","r","d">>,
   <<"i","d"," ","c","a","r","d">>,
   <<"i","d","e","n","t","i","t","y"," ","c","a","r","d">>,
   <<"i","d","e","n","t","i","f","i","c","a","t","i","o","n"," ","i","d">>,
   <<"o","f","f","i","c","i","a","l"," ","i","d">>,
   <<"o","f","f","i","c","i","a","l"," ","i","d","e","n","t","i","f","i","c","a","t","i","o","n">>,
   <<"n","a","t","i","o","n","a","l"," ","i","d">>,
   <<"n","a","t","i","o","n","a","l"," ","i","d","e","n","t","i","f","i","c","a","t","i","o","n">>,
   <<"g","o","v"," ","i","d","e","n","t","i","t","y">>,
   <<"s","o","c","i","a","l"," ","s","e","c","u","r","i","t","y"," ","n","u","m","b","e","r">>,
   <<"S","o","c","i","a","l"," ","S","e","c","u","r","i","t","y"," ","N","u","m","b","e","r">>,
   <<"S","O","C","I","A","L"," ","S","E","C","U","R","I","T","Y"," ","N","U","M","B","E","R">>,
   <<"s","s","n">>,
   <<"S","S","N">>,
   <<"S",".","S",".","N",".">>,
   <<"s","o","c","i","a","l"," ","s","e","c","u","r","i","t","y"," ","n","o">>,
   <<"s","s"," ","n","u","m","b","e","r">>,
   <<"s","o","c"," ","s","e","c"," ","n","o">>,
   <<"s","s","n"," ","n","u","m","b","e","r">>,
   <<"s","o","c","i","a","l"," ","s","e","c"," ","n","u","m","b","e","r">>,
   <<"s","o","c","i","a","l"," ","s","e","c","u","r","i","t","y"," ","#">>,
   <<"t","a","x"," ","i","d">>,
   <<"T","a","x"," ","I","D">>,
   <<"T","A","X"," ","I","D">>,
   <<"t","a","x"," ","i","d","e","n","t","i","f","i","c","a","t","i","o","n"," ","n","u","m","b","e","r">>,
   <<"t","i","n">>,
   <<"T","I","N">>,
   <<"T",".","I",".","N",".">>,
   <<"t","a","x"," ","n","o">>,
   <<"t","a","x"," ","n","u","m","b","e","r">>,
   <<"t","a","x","p","a","y","e","r"," ","i","d">>,
   <<"t","a","x"," ","p","a","y","e","r"," ","n","u","m","b","e","r">>,
   <<"f","e","d","e","r","a","l"," ","e","m","p","l","o","y","e","r"," ","i","d">>,
   <<"F","e","d","e","r","a","l"," ","E","m","p","l","o","y","e","r"," ","I","D">>,
   <<"F","E","D","E","R","A","L"," ","E","M","P","L","O","Y","E","R"," ","I","D">>,
   <<"e","m","p","l","o","y","e","r"," ","i","d">>,
   <<"e","m","p","l","o","y","e","r"," ","i","d","e","n","t","i","f","i","c","a","t","i","o","n">>,
   <<"f","e","i","d">>,
   <<"F","E","I","D">>,
   <<"F",".","E",".","I",".","D",".">>,
   <<"f","e","i","n">>,
   <<"F","E","I","N">>,
   <<"F",".","E",".","I",".","N",".">>,
   <<"f","e","d","e","r","a","l"," ","e","m","p","l","o","y","e","r"," ","i","d","e","n","t","i","f","i","c","a","t","i","o","n"," ","n","u","m","b","e","r">>,
   <<"f","e","i","n"," ","n","u","m","b","e","r">>,
   <<"f","e","d","e","r","a","l"," ","e","i","n">>,
   <<"e","m","p","l","o","y","e","r"," ","e","i","n">>,
   <<"d","r","i","v","e","r","'","s"," ","l","i","c","e","n","s","e">>,
   <<"D","r","i","v","e","r","'","s"," ","L","i","c","e","n","s","e">>,
   <<"D","r","i","v","e","r","'"," ","s"," ","L","i","c","e","n","s","e">>,
   <<"L","i","c","e","n","s","e">>,
   <<"D","R","I","V","E","R","'","S"," ","L","I","C","E","N","S","E">>,
   <<"d","r","i","v","e","r","s"," ","l","i","c","e","n","s","e">>,
   <<"d","r","i","v","e","r"," ","l","i","c","e","n","s","e">>,
   <<"d","r","i","v","i","n","g"," ","l","i","c","e","n","s","e">>,
   <<"d","l"," ","n","u","m","b","e","r">>,
   <<"D","L">>,
   <<"D",".","L",".">>,
   <<"l","i","c","e","n","s","e"," ","n","u","m","b","e","r">>,
   <<"d","r","i","v","e","r"," ","i","d">>,
   <<"i","d","e","n","t","i","f","i","c","a","t","i","o","n"," ","c","a","r","d">>,
   <<"I","d","e","n","t","i","f","i","c","a","t","i","o","n"," ","C","a","r","d">>,
   <<"I","D"," ","c","a","r","d">>,
   <<"i","d","e","n","t","i","t","y"," ","c","a","r","d">>,
   <<"i","d">>,
   <<"I","D">>,
   <<"i","d","e","n","t","i","f","i","c","a","t","i","o","n">>,
   <<"i","d"," ","n","u","m","b","e","r">>,
   <<"i","d","e","n","t","i","f","i","c","a","t","i","o","n"," ","n","u","m","b","e","r">>,
   <<"p","a","s","s","p","o","r","t">>,
   <<"P","a","s","s","p","o","r","t">>,
   <<"P","A","S","S","P","O","R","T">>,
   <<"p","a","s","s","p","o","r","t"," ","n","u","m","b","e","r">>,
   <<"p","a","s","s","p","o","r","t"," ","n","o">>,
   <<"p","p"," ","n","u","m","b","e","r">>,
   <<"p","a","s","s","p","o","r","t"," ","i","d">>,
   <<"m","i","l","i","t","a","r","y"," ","i","d">>,
   <<"M","i","l","i","t","a","r","y"," ","I","D">>,
   <<"M","I","L","I","T","A","R","Y"," ","I","D">>,
   <<"a","r","m","y"," ","i","d">>,
   <<"n","a","v","y"," ","i","d">>,
   <<"a","i","r","f","o","r","c","e"," ","i","d">>,
   <<"d","e","f","e","n","s","e"," ","i","d">>,
   <<"m","i","l","i","t","a","r","y"," ","i","d","e","n","t","i","f","i","c","a","t","i","o","n">>,
   <<"d","a","t","e"," ","o","f"," ","b","i","r","t","h">>,
   <<"D","a","t","e"," ","o","f"," ","B","i","r","t","h">>,
   <<"D","A","T","E"," ","O","F"," ","B","I","R","T","H">>,
   <<"d","o","b">>,
   <<"D","O","B">>,
   <<"b","i","r","t","h"," ","d","a","t","e">>,
   <<"b","i","r","t","h"," ","i","n","f","o">>,
   <<"D",".","o",".","B",".">>,
   <<"D","O","B">>,
   <<"d","a","t","e"," ","b","o","r","n">>,
   <<"b","o","r","n"," ","o","n">>,
   <<"b","i","r","t","h","d","a","t","e">>,
   <<"D",".","O",".","B",".">>,
   <<"h","o","m","e"," ","a","d","d","r","e","s","s">>,
   <<"H","o","m","e"," ","A","d","d","r","e","s","s">>,
   <<"H","O","M","E"," ","A","D","D","R","E","S","S">>,
   <<"r","e","s","i","d","e","n","t","i","a","l"," ","a","d","d","r","e","s","s">>,
   <<"r","e","s","i","d","e","n","c","e"," ","a","d","d","r","e","s","s">>,
   <<"a","d","d","r","e","s","s">>,
   <<"a","d","d","r">>,
   <<"A","D","D","R","E","S","S">>,
   <<"s","t","r","e","e","t"," ","a","d","d","r","e","s","s">>,
   <<"s","t","r","e","e","t"," ","a","d","d","r">>,
   <<"r","e","s","i","d","e","n","t","i","a","l"," ","a","d","d","r">>,
   <<"A","d","d","r","e","s","s">>,
   <<"h","o","m","e"," ","t","e","l","e","p","h","o","n","e"," ","n","u","m","b","e","r">>,
   <<"H","o","m","e"," ","T","e","l","e","p","h","o","n","e"," ","n","u","m","b","e","r">>,
   <<"H","O","M","E"," ","T","E","L","E","P","H","O","N","E"," ","N","U","M","B","E","R">>,
   <<"t","e","l","e","p","h","o","n","e"," ","n","u","m","b","e","r">>,
   <<"h","o","m","e"," ","p","h","o","n","e">>,
   <<"l","a","n","d","l","i","n","e">>,
   <<"t","e","l"," ","n","u","m","b","e","r">>,
   <<"c","e","l","l"," ","p","h","o","n","e"," ","n","u","m","b","e","r">>,
   <<"C","e","l","l"," ","p","h","o","n","e"," ","n","u","m","b","e","r">>,
   <<"C","E","L","L"," ","P","H","O","N","E"," ","N","U","M","B","E","R">>,
   <<"m","o","b","i","l","e"," ","n","u","m","b","e","r">>,
   <<"m","o","b","i","l","e"," ","n","o">>,
   <<"c","e","l","l"," ","n","u","m","b","e","r">>,
   <<"p","h","o","n","e"," ","n","u","m","b","e","r">>,
   <<"c","o","n","t","a","c","t"," ","n","u","m","b","e","r">>,
   <<"c","o","n","t","a","c","t"," ","n","o">>,
   <<"p","h"," ","n","u","m","b","e","r">>,
   <<"C","e","l","l"," ","N","o">>,
   <<"e","m","a","i","l"," ","a","d","d","r","e","s","s">>,
   <<"E","m","a","i","l"," ","A","d","d","r","e","s","s">>,
   <<"E","M","A","I","L"," ","A","D","D","R","E","S","S">>,
   <<"e","m","a","i","l">>,
   <<"e","-","m","a","i","l">>,
   <<"e","m","a","i","l"," ","i","d">>,
   <<"m","a","i","l"," ","i","d">>,
   <<"E","m","a","i","l">>,
   <<"e","m","a","i","l"," ","I","D">>,
   <<"e","M","a","i","l">>,
   <<"g","m","a","i","l">>,
   <<"g","-","m","a","i","l">>,
   <<"s","o","c","i","a","l"," ","m","e","d","i","a"," ","c","o","n","t","a","c","t"," ","i","n","f","o","r","m","a","t","i","o","n">>,
   <<"S","o","c","i","a","l"," ","M","e","d","i","a"," ","C","o","n","t","a","c","t"," ","I","n","f","o","r","m","a","t","i","o","n">>,
   <<"S","O","C","I","A","L"," ","M","E","D","I","A"," ","C","O","N","T","A","C","T"," ","I","N","F","O","R","M","A","T","I","O","N">>,
   <<"s","o","c","i","a","l"," ","m","e","d","i","a"," ","i","n","f","o">>,
   <<"s","o","c","i","a","l"," ","h","a","n","d","l","e">>,
   <<"s","o","c","i","a","l"," ","c","o","n","t","a","c","t">>,
   <<"s","o","c","i","a","l"," ","m","e","d","i","a"," ","a","c","c","o","u","n","t">>,
   <<"h","e","a","l","t","h"," ","i","n","s","u","r","a","n","c","e"," ","p","o","l","i","c","y"," ","n","u","m","b","e","r">>,
   <<"H","e","a","l","t","h"," ","I","n","s","u","r","a","n","c","e"," ","P","o","l","i","c","y"," ","N","u","m","b","e","r">>,
   <<"i","n","s","u","r","a","n","c","e"," ","p","o","l","i","c","y"," ","n","u","m","b","e","r">>,
   <<"p","o","l","i","c","y"," ","n","u","m","b","e","r">>,
   <<"p","o","l","i","c","y"," ","n","o">>,
   <<"h","e","a","l","t","h"," ","i","n","s","u","r","a","n","c","e"," ","n","u","m","b","e","r">>,
   <<"i","n","s","u","r","a","n","c","e"," ","n","u","m","b","e","r">>,
   <<"m","e","d","i","c","a","l"," ","r","e","c","o","r","d"," ","n","u","m","b","e","r">>,
   <<"M","e","d","i","c","a","l"," ","R","e","c","o","r","d"," ","N","u","m","b","e","r">>,
   <<"M","R","N">>,
   <<"m","r","n">>,
   <<"m","e","d","i","c","a","l"," ","r","e","c","o","r","d"," ","n","o">>,
   <<"m","e","d"," ","r","e","c","o","r","d"," ","n","u","m","b","e","r">>,
   <<"m","e","d","i","c","a","l">>,
   <<"r","e","c","o","r","d">>,
   <<"n","u","m","b","e","r">>,
   <<"c","l","a","i","m"," ","n","u","m","b","e","r">>,
   <<"C","l","a","i","m"," ","N","u","m","b","e","r">>,
   <<"C","L","A","I","M"," ","N","U","M","B","E","R">>,
   <<"c","l","a","i","m"," ","n","o">>,
   <<"c","l","a","i","m"," ","i","d">>,
   <<"p","a","t","i","e","n","t"," ","a","c","c","o","u","n","t"," ","n","u","m","b","e","r">>,
   <<"P","a","t","i","e","n","t"," ","A","c","c","o","u","n","t"," ","N","u","m","b","e","r">>,
   <<"P","A","T","I","E","N","T"," ","A","C","C","O","U","N","T"," ","N","U","M","B","E","R">>,
   <<"p","a","t","i","e","n","t"," ","i","d">>,
   <<"p","a","t","i","e","n","t"," ","a","c","c","o","u","n","t">>,
   <<"f","i","l","e"," ","n","u","m","b","e","r">>,
   <<"F","i","l","e"," ","N","u","m","b","e","r">>,
   <<"F","I","L","E"," ","N","U","M","B","E","R">>,
   <<"f","i","l","e"," ","n","o">>,
   <<"f","i","l","e"," ","i","d">>,
   <<"f","i","l","e"," ","r","e","f","e","r","e","n","c","e">>,
   <<"c","h","a","r","t"," ","n","u","m","b","e","r">>,
   <<"C","h","a","r","t"," ","N","u","m","b","e","r">>,
   <<"C","H","A","R","T"," ","N","U","M","B","E","R">>,
   <<"c","h","a","r","t"," ","n","o">>,
   <<"c","h","a","r","t"," ","i","d">>,
   <<"i","n","d","i","v","i","d","u","a","l"," ","f","i","n","a","n","c","i","a","l"," ","a","c","c","o","u","n","t"," ","n","u","m","b","e","r">>,
   <<"I","n","d","i","v","i","d","u","a","l"," ","F","i","n","a","n","c","i","a","l"," ","A","c","c","o","u","n","t"," ","N","u","m","b","e","r">>,
   <<"f","i","n","a","n","c","i","a","l"," ","a","c","c","o","u","n","t"," ","n","u","m","b","e","r">>,
   <<"f","i","n","a","n","c","i","a","l"," ","a","c","c","o","u","n","t">>,
   <<"a","c","c","o","u","n","t"," ","n","u","m","b","e","r">>,
   <<"b","a","n","k"," ","a","c","c","o","u","n","t"," ","n","u","m","b","e","r">>,
   <<"B","a","n","k"," ","A","c","c","o","u","n","t"," ","N","u","m","b","e","r">>,
   <<"B","A","N","K"," ","A","C","C","O","U","N","T"," ","N","U","M","B","E","R">>,
   <<"b","a","n","k"," ","n","o">>,
   <<"a","c","c","o","u","n","t"," ","n","o">>,
   <<"a","c","c","t"," ","n","u","m","b","e","r">>,
   <<"f","i","n","a","n","c","i","a","l"," ","i","n","f","o","r","m","a","t","i","o","n">>,
   <<"F","i","n","a","n","c","i","a","l"," ","I","n","f","o","r","m","a","t","i","o","n">>,
   <<"F","I","N","A","N","C","I","A","L"," ","I","N","F","O","R","M","A","T","I","O","N">>,
   <<"f","i","n","a","n","c","i","a","l"," ","d","a","t","a">>,
   <<"f","i","n","a","n","c","i","a","l"," ","d","e","t","a","i","l","s">>,
   <<"c","r","e","d","i","t"," ","c","a","r","d"," ","n","u","m","b","e","r">>,
   <<"C","r","e","d","i","t"," ","C","a","r","d"," ","N","u","m","b","e","r">>,
   <<"C","R","E","D","I","T"," ","C","A","R","D"," ","N","U","M","B","E","R">>,
   <<"c","r","e","d","i","t"," ","c","a","r","d">>,
   <<"c","a","r","d"," ","n","u","m","b","e","r">>,
   <<"c","c"," ","n","u","m","b","e","r">>,
   <<"c","a","r","d"," ","n","o">>
  >>

OneToNine == {"1", "2", "3", "4", "5", "6", "7", "8", "9"}

\* \b\d{3}-\d{2}-\d{4}\b
SSN ==
  <<Boundary, Rep("d", "", 3, 3, TRUE), Lit("-"), Rep("d", "", 2, 2, TRUE),
    Lit("-"), Rep("d", "", 4, 4, TRUE), Boundary>>

\* \b\+?\d{1,3}?[-.\s]?\(?\d{2,4}\)?[-.\s]?\d{3,4}[-.\s]?\d{3,4}\b
Phone ==
  <<Boundary, OptLit("+"), Rep("d", "", 1, 3, FALSE), Opt("psep"),
    OptLit("("), Rep("d", "", 2, 4, TRUE), OptLit(")"), Opt("psep"),
    Rep("d", "", 3, 4, TRUE), Opt("psep"), Rep("d", "", 3, 4, TRUE), Boundary>>

\* \b[A-Za-z0-9._%+-]+@[A-Za-z0-9.-]+\.[A-Za-z]{2,}\b
Email ==
  <<Boundary, Plus("local"), Lit("@"), Plus("dom"), Lit("."),
    Rep("alpha", "", 2, Inf, TRUE), Boundary>>

\* \b(?:\d{4}[-\s]?){3}\d{4}\b
CreditCard ==
  <<Boundary,
    Rep("d", "", 4, 4, TRUE), Opt("ccsep"),
    Rep("d", "", 4, 4, TRUE), Opt("ccsep"),
    Rep("d", "", 4, 4, TRUE), Opt("ccsep"),
    Rep("d", "", 4, 4, TRUE), Boundary>>

\* \b(?:0?[1-9]|1[0-2])[\/\-.](?:0?[1-9]|[12]\d|3[01])[\/\-.]\d{4}\b
Date ==
  <<Boundary,
    Alt(<< <<OptLit("0"), In(OneToNine)>>, <<Lit("1"), In({"0", "1", "2"})>> >>),
    One("dsep"),
    Alt(<< <<OptLit("0"), In(OneToNine)>>, <<In({"1", "2"}), One("d")>>,
           <<Lit("3"), In({"0", "1"})>> >>),
    One("dsep"), Rep("d", "", 4, 4, TRUE), Boundary>>

\* the values of the dict, by key
PatternStrings ==
  [SSN |-> SSN, Phone |-> Phone, Email |-> Email, CreditCard |-> CreditCard,
   Date |-> Date]

\* ------------------------------------------------------------------------
\* State
\* ------------------------------------------------------------------------
NumCallers == 2
Callers == 1..NumCallers

VARIABLES
  PII_LABELS,  \* the module-level list: its entries, in order, each the
               \* index in LabelStrings of the string it refers to
  PATTERNS,    \* the module-level dict: its keys in insertion order
  pc,          \* pc[c]: where caller c stands in redact_text_content
  arg,         \* arg[c]: the argument of c's current or last call
  text,        \* text[c]: the local variable text of c's call
  ret,         \* ret[c]: what c's last call returned
  chained,     \* chained[c]: c's call was given the result of c's call before
  upload,      \* the uploads the /process endpoint has to answer: one at most
  response     \* the last answer of the /process endpoint, with its request

vars == <<PII_LABELS, PATTERNS, pc, arg, text, ret, chained, upload, response>>

NoResponse == [status |-> 0]

Init ==
  /\ PII_LABELS = [i \in 1..Len(LabelStrings) |-> i]
  /\ PATTERNS = <<"SSN", "Phone", "Email", "CreditCard", "Date">>
  /\ pc = [c \in Callers |-> "ready"]
  /\ arg = [c \in Callers |-> <<>>]
  /\ text = [c \in Callers |-> <<>>]
  /\ ret = [c \in Callers |-> <<>>]
  /\ chained = [c \in Callers |-> FALSE]
  /\ upload = <<>>
  /\ response = NoResponse

\* ------------------------------------------------------------------------
\* Redaction
\* ------------------------------------------------------------------------
\* a mask made of a digit
blackoutDigit(s) == [i \in 1..Len(s) |-> "0"]

\* one glyph, whatever the length of s
blackoutOne(s) == <<MASK>>

blackout(s) == [i \in 1..Len(s) |-> MASK]

\* p = rf"({re.escape(label)}\s*[:\-–]\s*)([^\n\r]+)"
LabelPattern(label) ==
  [i \in 1..Len(label) |-> Lit(label[i])]
    \o <<Star("s"), One("sep"), Star("s"), GroupStart, Plus("val")>>

LabelPatterns == [i \in 1..Len(LabelStrings) |-> LabelPattern(LabelStrings[i])]

\* lambda m: m.group(1) + blackout(m.group(2)), m a match <<g, e>> at pos
LabelRepl(t, pos, m) ==
  SubSeq(t, pos + 1, m[1]) \o blackout(SubSeq(t, m[1] + 1, m[2]))

\* lambda m: blackout(m.group(0))
PatternRepl(t, pos, m) == blackout(SubSeq(t, pos + 1, m[2]))

RECURSIVE finditer(_, _, _)
\* the non-overlapping matches of patt in t from offset pos on, leftmost
\* first, each <<start, g, e>>: the scan resumes where a match ends, and
\* every match is searched in t itself, never in the replaced text
finditer(patt, t, pos) ==
  IF pos >= Len(t) THEN <<>>
  ELSE LET m == MatchSeq(t, patt, 1, pos)
       IN  IF m = NoMatch THEN finditer(patt, t, pos + 1)
           ELSE <<<<pos, m[1], m[2]>>>> \o finditer(patt, t, m[2])

RECURSIVE Replace(_, _, _, _, _)
\* t from offset pos on, with the matches ms[k], ms[k+1], ... replaced
Replace(t, ms, byGroup, k, pos) ==
  IF k > Len(ms) THEN SubSeq(t, pos + 1, Len(t))
  ELSE SubSeq(t, pos + 1, ms[k][1])
         \o (IF byGroup THEN LabelRepl(t, ms[k][1], <<ms[k][2], ms[k][3]>>)
                         ELSE PatternRepl(t, ms[k][1], <<ms[k][2], ms[k][3]>>))
         \o Replace(t, ms, byGroup, k + 1, ms[k][3])

\* re.sub(patt, repl, t, flags=re.I); byGroup tells the label replacement
\* from the pattern replacement
re_sub(patt, byGroup, t) == Replace(t, finditer(patt, t, 0), byGroup, 1, 0)

RECURSIVE LabelLoop(_, _, _)
\* the iterations lo..hi of the loop of redact_labels, in catalog order; the
\* range is halved only to keep the evaluation shallow (re.sub leaves an
\* empty text empty, whatever the label)
LabelLoop(t, lo, hi) ==
  IF lo > hi \/ Len(t) = 0 THEN t
  ELSE IF lo = hi THEN re_sub(LabelPatterns[PII_LABELS[lo]], TRUE, t)
  ELSE LabelLoop(LabelLoop(t, lo, (lo + hi) \div 2), ((lo + hi) \div 2) + 1, hi)

redact_labels(t) == LabelLoop(t, 1, Len(PII_LABELS))

RECURSIVE PatternLoop(_, _)
\* the loop of redact_patterns from the i-th item of the dict on
PatternLoop(t, i) ==
  IF i > Len(PATTERNS) THEN t
  ELSE PatternLoop(re_sub(PatternStrings[PATTERNS[i]], FALSE, t), i + 1)

redact_patterns(t) == PatternLoop(t, 1)

redact_text_content(t) == redact_patterns(redact_labels(t))

\* ------------------------------------------------------------------------
\* redact_text_content, step by step
\* ------------------------------------------------------------------------
\* caller c makes its first call, redact_text_content(t)
Call(c, t) ==
  /\ pc[c] = "ready"
  /\ arg' = [arg EXCEPT ![c] = t]
  /\ text' = [text EXCEPT ![c] = t]
  /\ pc' = [pc EXCEPT ![c] = "redact_labels"]
  /\ UNCHANGED <<PII_LABELS, PATTERNS, ret, chained, upload, response>>

\* caller c calls redact_text_content on what its last call returned
CallAgain(c) ==
  /\ pc[c] = "done"
  /\ ~chained[c]
  /\ arg' = [arg EXCEPT ![c] = ret[c]]
  /\ text' = [text EXCEPT ![c] = ret[c]]
  /\ chained' = [chained EXCEPT ![c] = TRUE]
  /\ pc' = [pc EXCEPT ![c] = "redact_labels"]
  /\ UNCHANGED <<PII_LABELS, PATTERNS, ret, upload, response>>

\* redact_labels writing a text that all callers share
RedactLabelsShared(c) ==
  /\ pc[c] = "redact_labels"
  /\ text' = [d \in Callers |-> redact_labels(text[c])]
  /\ pc' = [pc EXCEPT ![c] = "redact_patterns"]
  /\ UNCHANGED <<PII_LABELS, PATTERNS, arg, ret, chained, upload, response>>

\* the inner call redact_labels(text)
RedactLabels(c) ==
  /\ pc[c] = "redact_labels"
  /\ text' = [text EXCEPT ![c] = redact_labels(text[c])]
  /\ pc' = [pc EXCEPT ![c] = "redact_patterns"]
  /\ UNCHANGED <<PII_LABELS, PATTERNS, arg, ret, chained, upload, response>>

\* the outer call redact_patterns(...)
RedactPatterns(c) ==
  /\ pc[c] = "redact_patterns"
  /\ text' = [text EXCEPT ![c] = redact_patterns(text[c])]
  /\ pc' = [pc EXCEPT ![c] = "return"]
  /\ UNCHANGED <<PII_LABELS, PATTERNS, arg, ret, chained, upload, response>>

Return(c) ==
  /\ pc[c] = "return"
  /\ ret' = [ret EXCEPT ![c] = text[c]]
  /\ pc' = [pc EXCEPT ![c] = "done"]
  /\ UNCHANGED <<PII_LABELS, PATTERNS, arg, text, chained, upload, response>>

\* ------------------------------------------------------------------------
\* Input texts
\* ------------------------------------------------------------------------
MaxTokens == 3

RECURSIVE Concats(_, _)
\* the texts made of at most n tokens of the set toks
Concats(toks, n) ==
  IF n = 0 THEN {<<>>}
  ELSE LET shorter == Concats(toks, n - 1)
       IN  shorter \cup {t \o w : t \in shorter, w \in toks}

Tokens ==
  {<<"s","s","n">>, <<":">>, <<" ">>, <<"\n">>, <<"-">>, <<"4","1","1","1">>,
   <<"j","@","b",".","c","o">>, <<"1","/","2","/","2","0","2","0">>}

Inputs == Concats(Tokens, MaxTokens)

Next ==
  \/ \E t \in Inputs : Call(1, t)
  \/ CallAgain(1)
  \/ RedactLabels(1)
  \/ RedactPatterns(1)
  \/ Return(1)

Spec == Init /\ [][Next]_vars

Range(s) == {s[i] : i \in 1..Len(s)}

\* C1: the pipeline is idempotent: a call given the result of the call
\* before returns its argument, redact(redact(t)) = redact(t)
Idempotent ==
  \A c \in Callers : (pc[c] = "done" /\ chained[c]) => ret[c] = arg[c]

\* a second call has returned a text made of masks and of characters that
\* the first call kept
IdempotentWitness ==
  /\ pc[1] = "done"
  /\ chained[1]
  /\ ret[1] = arg[1]
  /\ MASK \in Range(ret[1])
  /\ Range(ret[1]) \cap Digits # {}

\* C7: redact is total and length-preserving: the result has the length of
\* the input, and each of its characters is the input's or the mask glyph
\* (so the empty text gives the empty text)
LengthPreserving ==
  \A c \in Callers :
    pc[c] = "done" =>
      /\ Len(ret[c]) = Len(arg[c])
      /\ \A i \in 1..Len(ret[c]) : ret[c][i] \in {arg[c][i], MASK}

\* a first call has masked a part of its input, and kept a part
LengthPreservingWitness ==
  /\ pc[1] = "done"
  /\ ~chained[1]
  /\ Len(ret[1]) = Len(arg[1])
  /\ \E i \in 1..Len(ret[1]) : ret[1][i] = MASK /\ arg[1][i] # MASK
  /\ \E i \in 1..Len(ret[1]) : ret[1][i] = arg[1][i]

\* ------------------------------------------------------------------------
\* Card numbers after a label-like word
\* ------------------------------------------------------------------------
CardWords == {<<"C","a","r","d">>, <<"c","a","r","d"," ","n","o">>, <<"C","r","e","d","i","t"," ","C","a","r","d">>, <<"V","i","s","a">>}
CardGroups == {<<"4","1","1","1">>, <<"1","1","1","1">>, <<"0","0","0","4">>}

CardInputs ==
  {w \o <<":"," ">> \o g1 \o <<"-">> \o g2 \o <<"-">> \o g3 \o <<"-">> \o g4 :
     w \in CardWords, g1 \in CardGroups, g2 \in CardGroups,
     g3 \in CardGroups, g4 \in CardGroups}

NextCard ==
  \/ \E t \in CardInputs : Call(1, t)
  \/ RedactLabels(1)
  \/ RedactPatterns(1)
  \/ Return(1)

SpecCard == Init /\ [][NextCard]_vars

\* 16 digits grouped 4-4-4-4 with hyphens
IsCardNumber(s) ==
  /\ Len(s) = 19
  /\ \A i \in 1..19 : IF i \in {5, 10, 15} THEN s[i] = "-" ELSE s[i] \in Digits

\* <word>: <card number>
IsCardLine(t) ==
  /\ Len(t) > 21
  /\ IsCardNumber(SubSeq(t, Len(t) - 18, Len(t)))
  /\ SubSeq(t, Len(t) - 20, Len(t) - 19) = <<":"," ">>
  /\ \A i \in 1..(Len(t) - 21) : t[i] \in Letters \/ t[i] = " "

\* C2: in '<label-like word>: <card number>' the whole 19-character number
\* becomes 19 mask glyphs and the text before it is unchanged
CardNumberMasked ==
  \A c \in Callers :
    (pc[c] = "done" /\ IsCardLine(arg[c])) =>
      /\ Len(ret[c]) = Len(arg[c])
      /\ SubSeq(ret[c], Len(arg[c]) - 18, Len(arg[c])) = [i \in 1..19 |-> MASK]
      /\ SubSeq(ret[c], 1, Len(arg[c]) - 19) = SubSeq(arg[c], 1, Len(arg[c]) - 19)

\* ------------------------------------------------------------------------
\* An email address between other words
\* ------------------------------------------------------------------------
EmailBefore == {<<"C","o","n","t","a","c","t"," ","m","e"," ","a","t"," ">>, <<"m","a","i","l"," ">>}
EmailLocals == {<<"j","o","h","n">>, <<"j",".","d","o","e">>, <<"a","_","b">>, <<"5","5","5","-","1","2","3","-","4","5","6","7">>}
EmailDomains == {<<"e","x","a","m","p","l","e",".","c","o","m">>, <<"m","a","i","l",".","c","o",".","u","k">>}
EmailAfter == {<<" ","t","o","d","a","y">>, <<" ","n","o","w">>}

EmailInputs ==
  {b \o l \o <<"@">> \o d \o a :
     b \in EmailBefore, l \in EmailLocals, d \in EmailDomains, a \in EmailAfter}

NextEmail ==
  \/ \E t \in EmailInputs : Call(1, t)
  \/ RedactLabels(1)
  \/ RedactPatterns(1)
  \/ Return(1)

SpecEmail == Init /\ [][NextEmail]_vars

\* <label><optional whitespace><separator>
LabelHead(label) ==
  [i \in 1..Len(label) |-> Lit(label[i])] \o <<Star("s"), One("sep")>>

\* t contains a catalog label followed by a separator
HasLabelAndSeparator(t) ==
  \E i \in 1..Len(LabelStrings) : \E pos \in 0..Len(t) :
    MatchSeq(t, LabelHead(LabelStrings[i]), 1, pos) # NoMatch

\* C3: in a line with no label followed by a separator, the characters of
\* the email address are masked, all of them, and no other character changes
EmailMasked ==
  \A c \in Callers :
    (/\ pc[c] = "done"
     /\ ~HasLabelAndSeparator(arg[c])
     /\ Len(finditer(Email, arg[c], 0)) = 1) =>
      ret[c] = Replace(arg[c], finditer(Email, arg[c], 0), FALSE, 1, 0)

\* ------------------------------------------------------------------------
\* Texts of several lines
\* ------------------------------------------------------------------------
LineLabels == {<<"s","s","n">>, <<"D","O","B">>}
LineSeparators == {<<":">>, <<" ","-"," ">>}
LineValues == {<<>>, <<"x"," ","1">>}
LineTerminatorSeqs == {<<"\n">>, <<"\r","\n">>}
LineNext == {<<>>, <<"a","b","c"," ","1","2">>, <<"s","e","e"," ","b","e","l","o","w">>}

LabelLineInputs ==
  {l \o s \o v \o nl \o n :
     l \in LineLabels, s \in LineSeparators, v \in LineValues,
     nl \in LineTerminatorSeqs, n \in LineNext}

DigitLineInputs ==
  {a \o nl \o b :
     a \in {<<"1","2","3","4">>, <<"c","a","l","l"," ","5","5","5">>}, nl \in LineTerminatorSeqs \cup {<<" ">>},
     b \in {<<"5","6","7","8","9","0">>, <<"1","2","3"," ","4","5","6","7">>}}

LineInputs == LabelLineInputs \cup DigitLineInputs

NextLines ==
  \/ \E t \in LineInputs : Call(1, t)
  \/ RedactLabels(1)
  \/ RedactPatterns(1)
  \/ Return(1)

SpecLines == Init /\ [][NextLines]_vars

RECURSIVE LineLen(_, _)
\* the length of the line of t that starts at offset pos, terminator excluded
LineLen(t, pos) ==
  IF pos >= Len(t) \/ t[pos + 1] \in LineTerminators THEN 0
  ELSE 1 + LineLen(t, pos + 1)

RECURSIVE LabelsLineByLine(_)
\* redact_labels applied to each line of t on its own, the line terminators
\* kept as they are
LabelsLineByLine(t) ==
  LET n == LineLen(t, 0)
  IN  IF n = Len(t) THEN redact_labels(t)
      ELSE redact_labels(SubSeq(t, 1, n)) \o <<t[n + 1]>>
             \o LabelsLineByLine(SubSeq(t, n + 2, Len(t)))

\* C4: a label match alters no character of another line than the label's:
\* the label pass does to the text what it does to each line taken alone,
\* so a label whose value is empty leaves the following line as it is
LabelMatchStaysOnLine ==
  \A c \in Callers :
    pc[c] = "redact_patterns" => text[c] = LabelsLineByLine(arg[c])

\* C6: every line terminator of the input is at the same position in the
\* output
LineTerminatorsKept ==
  \A c \in Callers :
    pc[c] = "done" =>
      /\ Len(ret[c]) = Len(arg[c])
      /\ \A i \in 1..Len(arg[c]) :
           arg[c][i] \in LineTerminators => ret[c][i] = arg[c][i]

\* ------------------------------------------------------------------------
\* A word that is no label, a colon and a value
\* ------------------------------------------------------------------------
ColonWords == {<<"N","o","t","e">>, <<"P","a","i","d">>, <<"M","e","m","o">>, <<"V","a","l","i","d">>, <<"T","o","t","a","l">>, <<"M","a","r","t","i","n">>, <<"R","e">>}
ColonValues == {<<"s","e","e"," ","a","t","t","a","c","h","e","d">>, <<"o","k">>, <<"c","a","l","l"," ","m","e"," ","l","a","t","e","r">>, <<"t","o"," ","b","e"," ","d","o","n","e">>}

ColonInputs == {w \o <<":"," ">> \o v : w \in ColonWords, v \in ColonValues}

NextColon ==
  \/ \E t \in ColonInputs : Call(1, t)
  \/ RedactLabels(1)
  \/ RedactPatterns(1)
  \/ Return(1)

SpecColon == Init /\ [][NextColon]_vars

LowerSeq(s) == [i \in 1..Len(s) |-> Lower(s[i])]

\* w is an entry of the label catalog, compared case-insensitively
IsCatalogEntry(w) ==
  \E i \in 1..Len(LabelStrings) : LowerSeq(LabelStrings[i]) = LowerSeq(w)

\* t has a match of a structural pattern
HasStructuralMatch(t) ==
  \E name \in DOMAIN PatternStrings : finditer(PatternStrings[name], t, 0) # <<>>

\* t is '<word>: <value>', the word of k letters
IsColonLine(t, k) ==
  /\ k >= 1
  /\ Len(t) >= k + 2
  /\ \A i \in 1..k : t[i] \in Letters
  /\ t[k + 1] = ":"
  /\ t[k + 2] = " "
  /\ \A i \in 1..Len(t) : t[i] \notin LineTerminators

\* C5: a line '<word>: <value>' whose word is no catalog entry and whose
\* value has no structural match is returned unchanged
NoFalseMask ==
  \A c \in Callers :
    pc[c] = "done" =>
      \A k \in 1..Len(arg[c]) :
        (/\ IsColonLine(arg[c], k)
         /\ ~IsCatalogEntry(SubSeq(arg[c], 1, k))
         /\ ~HasStructuralMatch(SubSeq(arg[c], k + 3, Len(arg[c])))) =>
          ret[c] = arg[c]

\* ------------------------------------------------------------------------
\* Letter-case variants of the catalog labels
\* ------------------------------------------------------------------------
ToUpper == [c \in LowerLetters |-> CHOOSE u \in UpperLetters : ToLower[u] = c]

UpperSeq(s) == [i \in 1..Len(s) |-> IF s[i] \in LowerLetters THEN ToUpper[s[i]] ELSE s[i]]
SmallSeq(s) == [i \in 1..Len(s) |-> IF s[i] \in UpperLetters THEN ToLower[s[i]] ELSE s[i]]
\* capitals at the odd positions, small letters at the even ones
MixedSeq(s) == [i \in 1..Len(s) |-> IF i % 2 = 1 THEN UpperSeq(s)[i] ELSE SmallSeq(s)[i]]

CaseVariants(s) == {UpperSeq(s), SmallSeq(s), MixedSeq(s)}

CaseRests == {<<":"," ","A","b"," ","1">>, <<" ", ENDASH>> \o <<"1","2","3","-","4","5","-","6","7","8","9">>}

CaseInputs ==
  {v \o r : v \in UNION {CaseVariants(LabelStrings[i]) : i \in 1..Len(LabelStrings)},
            r \in CaseRests}

NextCase ==
  \/ \E t \in CaseInputs : Call(1, t)
  \/ RedactLabels(1)
  \/ RedactPatterns(1)
  \/ Return(1)

SpecCase == Init /\ [][NextCase]_vars

\* a and b differ at most in the case of their letters
IsCaseVariant(a, b) == Len(a) = Len(b) /\ SmallSeq(a) = SmallSeq(b)

MaskedPositions(t) == {i \in 1..Len(t) : t[i] = MASK}

\* C8: label matching is case-insensitive: a letter-case variant of a catalog
\* label, followed by a separator and a value, is masked at the positions at
\* which the label itself, followed by the same separator and value, is masked
CaseInsensitive ==
  \A c \in Callers :
    pc[c] = "done" =>
      \A i \in 1..Len(LabelStrings) : \A r \in CaseRests :
        (/\ Len(arg[c]) = Len(LabelStrings[i]) + Len(r)
         /\ SubSeq(arg[c], Len(LabelStrings[i]) + 1, Len(arg[c])) = r
         /\ IsCaseVariant(SubSeq(arg[c], 1, Len(LabelStrings[i])), LabelStrings[i])) =>
          MaskedPositions(ret[c])
            = MaskedPositions(redact_text_content(LabelStrings[i] \o r))

\* a variant that is no catalog entry as written has had its value masked
CaseInsensitiveWitness ==
  /\ pc[1] = "done"
  /\ arg[1] = <<"S","s","N",":"," ","A","b"," ","1">>
  /\ ret[1] = <<"S","s","N",":"," ">> \o <<MASK, MASK, MASK, MASK>>

\* ------------------------------------------------------------------------
\* Concurrent callers
\* ------------------------------------------------------------------------
ConcInputs == {<<"s","s","n",":"," ","1","\n","j","@","b",".","c","o">>, <<"i","d","-","4","1","1","1"," ","4","1","1","1"," ","4","1","1","1">>}

NextConc ==
  \E c \in Callers :
    \/ \E t \in ConcInputs : Call(c, t)
    \/ CallAgain(c)
    \/ RedactLabels(c)
    \/ RedactPatterns(c)
    \/ Return(c)

SpecConc == Init /\ [][NextConc]_vars

\* C9: the core is stateless: under any interleaving of the callers the two
\* catalogs are what they were at the start, and what a call returns is
\* what redact_text_content gives for that call's argument alone
Stateless ==
  /\ PII_LABELS = [i \in 1..Len(LabelStrings) |-> i]
  /\ PATTERNS = <<"SSN", "Phone", "Email", "CreditCard", "Date">>
  /\ \A c \in Callers : pc[c] = "done" => ret[c] = redact_text_content(arg[c])

\* a call has returned its masked text while another caller, given another
\* text, is between its two passes
StatelessWitness ==
  \E c, d \in Callers :
    /\ c # d
    /\ pc[c] = "done"
    /\ MASK \in Range(ret[c])
    /\ pc[d] = "redact_patterns"
    /\ arg[d] # arg[c]
    /\ text[d] # arg[d]

\* ------------------------------------------------------------------------
\* The /process endpoint
\* ------------------------------------------------------------------------
BADBYTE == "BADBYTE"   \* a byte that is no UTF-8

RECURSIVE LastDot(_, _)
\* the position of the last "." among the first n characters of name, or 0
LastDot(name, n) ==
  IF n = 0 THEN 0 ELSE IF name[n] = "." THEN n ELSE LastDot(name, n - 1)

ImageExts == {<<"j","p","g">>, <<"j","p","e","g">>, <<"p","n","g">>, <<"b","m","p">>, <<"t","i","f","f">>, <<"t","i","f">>}

detect_filetype(filename) ==
  LET low == [i \in 1..Len(filename) |-> Lower(filename[i])]
      ext == SubSeq(low, LastDot(low, Len(low)) + 1, Len(low))
  IN  IF ext \in ImageExts THEN "image"
      ELSE IF ext = <<"p","d","f">> THEN "pdf"
      ELSE IF ext = <<"t","x","t">> THEN "text"
      ELSE IF ext = <<"d","o","c","x">> THEN "docx"
      ELSE "None"

\* t.strip() is empty
IsBlank(t) == \A i \in 1..Len(t) : t[i] \in Spaces

RECURSIVE LStrip(_), RStrip(_)
LStrip(t) == IF t # <<>> /\ Head(t) \in Spaces THEN LStrip(Tail(t)) ELSE t
RStrip(t) ==
  IF t # <<>> /\ t[Len(t)] \in Spaces THEN RStrip(SubSeq(t, 1, Len(t) - 1)) ELSE t
\* t.strip()
Strip(t) == RStrip(LStrip(t))

\* file_bytes.decode("utf-8", errors="ignore")
Decode(data) == SelectSeq(data, LAMBDA b : b # BADBYTE)

\* ext tells what the collaborators give: ext.docx what docx_extract_bytes
\* returns, ext.ocr what ocrspace_extract_bytes returns and ext.tess what
\* pytesseract_extract_bytes returns ("" when they fail)
extract_text_from_bytes(data, filename, ext) ==
  LET t == detect_filetype(filename)
  IN  IF t = "text" THEN Decode(data)
      ELSE IF t = "docx" THEN ext.docx
      ELSE IF t \in {"pdf", "image"}
           THEN IF ~IsBlank(ext.ocr) THEN ext.ocr
                ELSE IF ~IsBlank(ext.tess) THEN ext.tess
                ELSE <<>>
      ELSE <<>>

\* ai tells what the model does: "none" (no model, or the call raises),
\* "same" (it answers the text) or "empty" (it answers nothing)
fix_text_with_gemini(t, ai) ==
  IF ai = "none" THEN t
  ELSE IF ai = "same" THEN Strip(t)
  ELSE <<>>

\* os.path.splitext(filename)[0]
SplitextRoot(filename) ==
  LET d == LastDot(filename, Len(filename))
  IN  IF d > 1 THEN SubSeq(filename, 1, d - 1) ELSE filename

HTTPException(status, detail) == [status |-> status, detail |-> detail]

\* except Exception as e: raise HTTPException(500, f"Server error: {str(e)}")
ExceptHandler(req, e) ==
  [status |-> 500, detail |-> "Server error", caught |-> e, request |-> req]

\* the body of process_file for the upload req; renders tells whether the
\* rendering and the packaging of the documents go through
process_file(req, ext, ai, renders) ==
  IF Len(req.data) = 0
  THEN ExceptHandler(req, HTTPException(400, "Empty file"))
  ELSE LET extracted == extract_text_from_bytes(req.data, req.filename, ext)
       IN  IF IsBlank(extracted)
           THEN ExceptHandler(req, HTTPException(422, "Unable to extract text"))
           ELSE LET fixed == IF req.use_ai THEN fix_text_with_gemini(extracted, ai)
                                            ELSE extracted
                    redacted == redact_text_content(fixed)
                IN  IF ~renders
                    THEN ExceptHandler(req, [status |-> 0, detail |-> "rendering failed"])
                    ELSE [status |-> 200, detail |-> "",
                          caught |-> [status |-> 0, detail |-> ""],
                          request |-> req,
                          filename |-> SplitextRoot(req.filename)
                                         \o <<"_","c","l","e","a","n","e","d","_","r","e","d","a","c","t","e","d",".","z","i","p">>,
                          file |-> redacted]

UploadData == {<<>>, <<"s","s","n",":"," ","1">>, <<" ","\n">>, <<BADBYTE>>, <<"P","a","i","d",":"," ","2">>}
UploadNames == {<<"a",".","t","x","t">>, <<"b",".","D","O","C","X">>, <<"c",".","p","d","f">>, <<"d",".","p","n","g">>, <<"n","o","t","e","s">>}
Uploads ==
  [data : UploadData, filename : UploadNames, use_ai : BOOLEAN]
ExternalTexts == {<<>>, <<"D","O","B",":"," ","1","/","2","/","2","0","2","0">>}
Externals == [docx : ExternalTexts, ocr : ExternalTexts, tess : ExternalTexts]

\* a client posts a file to /process
Upload(req) ==
  /\ upload = <<>>
  /\ upload' = <<req>>
  /\ response' = NoResponse
  /\ UNCHANGED <<PII_LABELS, PATTERNS, pc, arg, text, ret, chained>>

\* process_file answers the upload
ProcessFile(ext, ai, renders) ==
  /\ upload # <<>>
  /\ response' = process_file(upload[1], ext, ai, renders)
  /\ upload' = <<>>
  /\ UNCHANGED <<PII_LABELS, PATTERNS, pc, arg, text, ret, chained>>

NextHttp ==
  \/ \E req \in Uploads : Upload(req)
  \/ \E ext \in Externals : \E ai \in {"none", "same", "empty"} :
       \E renders \in BOOLEAN : ProcessFile(ext, ai, renders)

SpecHttp == Init /\ [][NextHttp]_vars

\* C10: an upload of zero bytes is answered 400 'Empty file', an upload
\* with no text to extract 422 'Unable to extract text', and 500 answers
\* unexpected errors only
ClientErrorsKeepTheirStatus ==
  response.status # 0 =>
    /\ Len(response.request.data) = 0 =>
         response.status = 400 /\ response.detail = "Empty file"
    /\ response.caught.detail = "Unable to extract text" =>
         response.status = 422 /\ response.detail = "Unable to extract text"
    /\ response.status = 500 => response.caught.status = 0

====
